---- MODULE Spec2Model ----
(***************************************************************************)
(* Model of the charter-party core: the Amendment Detector                 *)
(* (src/src/amendment_parser.py) and the filled-mode Part I field scanner  *)
(* (src/src/pdf_extractor.py).                                             *)
(*                                                                         *)
(* Five specifications share the module:                                   *)
(*   Spec        runs AmendmentParser.detect_amendments on a pair of       *)
(*               clause trees, one action per statement of its try block   *)
(*   SpecFilled  runs PDFExtractor._extract_part_i_filled on a sequence of *)
(*               raw lines, one action per iteration of its outer loop     *)
(*   SpecClauses runs PDFExtractor._extract_part_ii_template or            *)
(*               _extract_part_ii_filled on a document text, one action    *)
(*               per iteration of the for loop                             *)
(*   SpecMapper  runs FieldMapper.extract_part_i_fields on a recap record  *)
(*   SpecFlow    runs process_charter_party (app/cli.py), one action per   *)
(*               call to a collaborator                                    *)
(***************************************************************************)
EXTENDS Integers, Sequences, FiniteSets, TLC

VARIABLES
    template_clauses,   \* detect_amendments: argument
    recap_clauses,      \* detect_amendments: argument
    pc,                 \* detect_amendments: position in the body
    template_lines,     \* detect_amendments: local, flattened template
    recap_lines,        \* detect_amendments: local, flattened recap
    amendments,         \* detect_amendments: local, the dict being built
    raised,             \* which statement of the try block raised ("none" if none)
    result,             \* the value detect_amendments returned
    lines,              \* _extract_part_i_filled: full_text.split('\n')
    i,                  \* _extract_part_i_filled: cursor (0-based)
    part_i,             \* _extract_part_i_filled: the field map
    fpc,                \* _extract_part_i_filled: "scan" or "done"
    headers,            \* indices the outer loop matched as field headers (history)
    mode,               \* clause extraction: "template" or "filled"
    full_text,          \* clause extraction: the concatenated page texts
    clines,             \* clause extraction: part_ii_text.split('\n')
    cpos,               \* clause extraction: number of lines the for loop has consumed
    part_ii,            \* clause extraction: the clause list (current_clause is its last element)
    cpc,                \* clause extraction: "split", "loop" or "done"
    recap_data,         \* extract_part_i_fields: argument
    map_num,          \* extract_part_i_fields: loop variable of range(1, 20)
    fields,             \* extract_part_i_fields: the dict being built
    mpc,                \* extract_part_i_fields: "check", "loop" or "done"
    env,                \* process_charter_party: what the files and collaborators will do
    wpc,                \* process_charter_party: position in the body
    calls,              \* process_charter_party: collaborators invoked so far (history)
    success             \* process_charter_party: the value returned

vars == <<template_clauses, recap_clauses, pc, template_lines, recap_lines,
          amendments, raised, result, lines, i, part_i, fpc, headers,
          mode, full_text, clines, cpos, part_ii, cpc,
          recap_data, map_num, fields, mpc, env, wpc, calls, success>>

detVars == <<template_clauses, recap_clauses, pc, template_lines, recap_lines,
             amendments, raised, result>>

fldVars == <<lines, i, part_i, fpc, headers>>

clsVars == <<mode, full_text, clines, cpos, part_ii, cpc>>

mapVars == <<recap_data, map_num, fields, mpc>>

flowVars == <<env, wpc, calls, success>>

\* the operations that a specification does not run stay idle
ClausesIdle == /\ mode = "idle"
               /\ full_text = <<>>
               /\ clines = <<>>
               /\ cpos = 0
               /\ part_ii = <<>>
               /\ cpc = "idle"

MapperIdle == /\ recap_data = <<>>
              /\ map_num = 0
              /\ fields = <<>>
              /\ mpc = "idle"

FlowIdle == /\ env = <<>>
            /\ wpc = "idle"
            /\ calls = <<>>
            /\ success = FALSE

(***************************************************************************)
(* Bounds                                                                  *)
(***************************************************************************)
\* content lines per template / recap tree, and per clause of each
MaxTLines  == 3
MaxRLines  == 2
TClauseLen == 2
RClauseLen == 1
\* raw lines per document
MaxDocLines == 4

(***************************************************************************)
(* Python values                                                           *)
(***************************************************************************)
\* None, as the value of a ContentLine's "line"
NoneVal == -1
\* a truthy, unhashable value (a list such as [1]) as the value of "line"
ListVal == -2
\* an unhashable value (a list) as the value of "text"
ListText == "[list]"

\* bool(x) for the value of "line": None and 0 are falsy
Truthy(x) == x # NoneVal /\ x # 0

\* hash(x) succeeds
HashableLine(x) == x # ListVal
HashableText(t) == t # ListText

(***************************************************************************)
(* Sequence helpers                                                        *)
(***************************************************************************)
SeqsUpTo(S, n) == UNION {[1..k -> S] : k \in 0..n}

RECURSIVE Flatten(_)
Flatten(ss) == IF ss = <<>> THEN <<>> ELSE Head(ss) \o Flatten(Tail(ss))

Range(s) == {s[k] : k \in 1..Len(s)}

(***************************************************************************)
(* Clause trees handed to the detector.  A ContentLine is                  *)
(* [line, text, original] where original is "absent" when the ContentLine  *)
(* has no "original" key; a clause is [title, kind, content] where kind    *)
(* tells what the clause's "content" entry is: a list, None, or missing.   *)
(***************************************************************************)
Item(t, l, o) == [text |-> t, line |-> l, original |-> o]

TItems == { Item("a", 1, "absent"),
            Item("a", 2, "absent"),
            Item("b", NoneVal, "absent"),
            Item("b", ListVal, "absent") }

RItems == { Item("a", 1, "absent"),
            Item("b", NoneVal, "false"),
            Item("c", NoneVal, "absent"),
            Item("c", NoneVal, "false"),
            Item("d", 0, "false"),
            Item("d", 0, "absent"),
            Item("d", NoneVal, "true"),
            Item(ListText, 1, "absent") }

ClauseTitle(n) == IF n = 1 THEN "Clause 1. A" ELSE IF n = 2 THEN "Clause 2. B"
                  ELSE IF n = 3 THEN "Clause 3. C" ELSE "Clause 4. D"

Clause(n, kind, content) == [title |-> ClauseTitle(n), kind |-> kind, content |-> content]

\* the tree whose clauses hold the content lines s, w lines per clause
TreeOf(s, w) ==
    [n \in 1..((Len(s) + w - 1) \div w) |->
        Clause(n, "list", SubSeq(s, (n - 1) * w + 1,
                                 IF n * w < Len(s) THEN n * w ELSE Len(s)))]

\* trees with a clause that has no "content" key, or whose "content" is None
TemplateTrees == {TreeOf(s, TClauseLen) : s \in SeqsUpTo(TItems, MaxTLines)}
                 \cup {<<Clause(1, "missing", <<>>)>>, <<Clause(1, "none", <<>>)>>}

RecapTrees    == {TreeOf(s, RClauseLen) : s \in SeqsUpTo(RItems, MaxRLines)}
                 \cup {<<Clause(1, "missing", <<>>)>>, <<Clause(1, "none", <<>>)>>}

(***************************************************************************)
(* Python dict with str keys: insertion-ordered, as a sequence of          *)
(* [key, val]; assigning an existing key keeps its position and replaces   *)
(* its value.                                                              *)
(***************************************************************************)
DictKeys(d) == {d[k].key : k \in 1..Len(d)}

\* variant: assigning an existing key moves it to the end
DictSetMoveToEnd(d, key, val) ==
    LET Other(e) == e.key # key
    IN  Append(SelectSeq(d, Other), [key |-> key, val |-> val])

\* variant: assigning an existing key keeps the value it already has
DictSetKeepFirst(d, key, val) ==
    IF key \in DictKeys(d) THEN d ELSE Append(d, [key |-> key, val |-> val])

DictSet(d, key, val) ==
    IF key \in DictKeys(d)
    THEN [k \in 1..Len(d) |-> IF d[k].key = key THEN [key |-> key, val |-> val] ELSE d[k]]
    ELSE Append(d, [key |-> key, val |-> val])

\* {item["text"]: item for item in xs}
RECURSIVE DictByTextFrom(_, _)
DictByTextFrom(d, xs) ==
    IF xs = <<>> THEN d
    ELSE DictByTextFrom(DictSet(d, Head(xs).text, Head(xs)), Tail(xs))

DictByText(xs) == DictByTextFrom(<<>>, xs)

(***************************************************************************)
(* AmendmentParser._extract_clause_lines                                   *)
(***************************************************************************)
\* variant: item.get("original", False)
OriginalDefaultFalse(o) == o = "true"

\* item.get("original", True)
OriginalDefaultTrue(o) == o # "false"

\* iterating clause["content"] raises TypeError when it is None
ExtractClauseLinesRaises(clauses) ==
    \E n \in 1..Len(clauses) : clauses[n].kind = "none"

ClauseLines(clause) ==
    IF clause.kind = "list"
    THEN [k \in 1..Len(clause.content) |->
            [line         |-> clause.content[k].line,
             text         |-> clause.content[k].text,
             original     |-> OriginalDefaultTrue(clause.content[k].original),
             clause_title |-> clause.title]]
    ELSE <<>>

_extract_clause_lines(clauses) ==
    Flatten([n \in 1..Len(clauses) |-> ClauseLines(clauses[n])])

(***************************************************************************)
(* AmendmentParser._analyze_diff                                           *)
(***************************************************************************)
\* building a dict keyed by item["text"] raises TypeError on an unhashable text
AnalyzeDiffRaises(tl, rl) ==
    \E x \in Range(tl) \cup Range(rl) : ~HashableText(x.text)

DiffRecord(e) == [text |-> e.key, line |-> e.val.line, clause |-> e.val.clause_title]

\* variant: the membership test looks in template_texts
DeletedOfWrongDict(template_texts, recap_texts) ==
    LET Keep(e) == e.key \notin DictKeys(template_texts)
        kept == SelectSeq(template_texts, Keep)
    IN  [k \in 1..Len(kept) |-> DiffRecord(kept[k])]

\* for text, item in template_texts.items(): if text not in recap_texts
DeletedOf(template_texts, recap_texts) ==
    LET Keep(e) == e.key \notin DictKeys(recap_texts)
        kept == SelectSeq(template_texts, Keep)
    IN  [k \in 1..Len(kept) |-> DiffRecord(kept[k])]

\* variant: the added loop does not test "text not in template_texts"
AddedOfNoTemplateTest(template_texts, recap_texts) ==
    LET Keep(e) == ~e.val.original
        kept == SelectSeq(recap_texts, Keep)
    IN  [k \in 1..Len(kept) |-> DiffRecord(kept[k])]

\* for text, item in recap_texts.items():
\*     if text not in template_texts and not item.get("original", False)
AddedOf(template_texts, recap_texts) ==
    LET Keep(e) == e.key \notin DictKeys(template_texts) /\ ~e.val.original
        kept == SelectSeq(recap_texts, Keep)
    IN  [k \in 1..Len(kept) |-> DiffRecord(kept[k])]

\* variant: the local skeleton has no "modified" entry
_analyze_diff_no_modified(tl, rl) ==
    [deleted  |-> DeletedOf(DictByText(tl), DictByText(rl)),
     added    |-> AddedOf(DictByText(tl), DictByText(rl))]

_analyze_diff(tl, rl) ==
    [deleted  |-> DeletedOf(DictByText(tl), DictByText(rl)),
     added    |-> AddedOf(DictByText(tl), DictByText(rl)),
     modified |-> <<>>]

(***************************************************************************)
(* AmendmentParser._find_new_lines                                         *)
(***************************************************************************)
\* template_lines.add(item["line"]) raises TypeError on an unhashable line;
\* iterating a None content raises TypeError
FindNewLinesRaises(tc, rc) ==
    \/ \E n \in 1..Len(tc) : tc[n].kind = "none"
    \/ \E n \in 1..Len(tc) : tc[n].kind = "list" /\
          \E x \in Range(tc[n].content) : Truthy(x.line) /\ ~HashableLine(x.line)
    \/ \E n \in 1..Len(rc) : rc[n].kind = "none"

\* not item.get("original", False) and not item.get("line")
IsNewLine(item) == item.original # "true" /\ ~Truthy(item.line)

ClauseNewLines(clause) ==
    IF clause.kind = "list"
    THEN LET kept == SelectSeq(clause.content, IsNewLine)
         IN  [k \in 1..Len(kept) |->
                [text |-> kept[k].text, clause |-> clause.title,
                 position |-> "after_clause"]]
    ELSE <<>>

_find_new_lines(tc, rc) ==
    Flatten([n \in 1..Len(rc) |-> ClauseNewLines(rc[n])])

(***************************************************************************)
(* AmendmentParser.detect_amendments                                       *)
(***************************************************************************)
Skeleton == [deleted |-> <<>>, added |-> <<>>, new |-> <<>>, modified |-> <<>>]

\* amendments["new"] = value
SetNew(a, value) ==
    [key \in DOMAIN a \cup {"new"} |-> IF key = "new" THEN value ELSE a[key]]

FieldsIdle == /\ lines = <<>>
              /\ i = 0
              /\ part_i = <<>>
              /\ fpc = "idle"
              /\ headers = <<>>

Init == /\ template_clauses \in TemplateTrees
        /\ recap_clauses \in RecapTrees
        /\ pc = "flatten_template"
        /\ template_lines = <<>>
        /\ recap_lines = <<>>
        /\ amendments = Skeleton
        /\ raised = "none"
        /\ result = Skeleton
        /\ FieldsIdle
        /\ ClausesIdle
        /\ MapperIdle
        /\ FlowIdle

\* template_lines = self._extract_clause_lines(template_clauses)
FlattenTemplate ==
    /\ pc = "flatten_template"
    /\ IF ExtractClauseLinesRaises(template_clauses)
       THEN /\ pc' = "except"
            /\ raised' = "flatten"
            /\ UNCHANGED template_lines
       ELSE /\ template_lines' = _extract_clause_lines(template_clauses)
            /\ pc' = "flatten_recap"
            /\ UNCHANGED raised
    /\ UNCHANGED <<template_clauses, recap_clauses, recap_lines, amendments, result>>
    /\ UNCHANGED <<fldVars, clsVars, mapVars, flowVars>>

\* recap_lines = self._extract_clause_lines(recap_clauses)
FlattenRecap ==
    /\ pc = "flatten_recap"
    /\ IF ExtractClauseLinesRaises(recap_clauses)
       THEN /\ pc' = "except"
            /\ raised' = "flatten"
            /\ UNCHANGED recap_lines
       ELSE /\ recap_lines' = _extract_clause_lines(recap_clauses)
            /\ pc' = "analyze"
            /\ UNCHANGED raised
    /\ UNCHANGED <<template_clauses, recap_clauses, template_lines, amendments, result>>
    /\ UNCHANGED <<fldVars, clsVars, mapVars, flowVars>>

\* amendments = self._analyze_diff(template_lines, recap_lines)
AnalyzeDiff ==
    /\ pc = "analyze"
    /\ IF AnalyzeDiffRaises(template_lines, recap_lines)
       THEN /\ pc' = "except"
            /\ raised' = "analyze"
            /\ UNCHANGED amendments
       ELSE /\ amendments' = _analyze_diff(template_lines, recap_lines)
            /\ pc' = "find_new"
            /\ UNCHANGED raised
    /\ UNCHANGED <<template_clauses, recap_clauses, template_lines, recap_lines, result>>
    /\ UNCHANGED <<fldVars, clsVars, mapVars, flowVars>>

\* amendments["new"] = self._find_new_lines(template_clauses, recap_clauses)
FindNewLines ==
    /\ pc = "find_new"
    /\ IF FindNewLinesRaises(template_clauses, recap_clauses)
       THEN /\ pc' = "except"
            /\ raised' = "find_new"
            /\ UNCHANGED amendments
       ELSE /\ amendments' = SetNew(amendments, _find_new_lines(template_clauses, recap_clauses))
            /\ pc' = "return"
            /\ UNCHANGED raised
    /\ UNCHANGED <<template_clauses, recap_clauses, template_lines, recap_lines, result>>
    /\ UNCHANGED <<fldVars, clsVars, mapVars, flowVars>>

\* return amendments (end of the try block)
Return ==
    /\ pc = "return"
    /\ result' = amendments
    /\ pc' = "done"
    /\ UNCHANGED <<template_clauses, recap_clauses, template_lines, recap_lines,
                   amendments, raised>>
    /\ UNCHANGED <<fldVars, clsVars, mapVars, flowVars>>

\* except Exception as e: ... return amendments
Except ==
    /\ pc = "except"
    /\ result' = amendments
    /\ pc' = "done"
    /\ UNCHANGED <<template_clauses, recap_clauses, template_lines, recap_lines,
                   amendments, raised>>
    /\ UNCHANGED <<fldVars, clsVars, mapVars, flowVars>>

Next == \/ FlattenTemplate
        \/ FlattenRecap
        \/ AnalyzeDiff
        \/ FindNewLines
        \/ Return
        \/ Except

Spec == Init /\ [][Next]_vars

(***************************************************************************)
(* Text.  A str is a sequence of one-character strings.                    *)
(***************************************************************************)
IsSpace(c) == c = " "
IsDigit(c) == c \in {"0", "1", "2", "3", "4", "5", "6", "7", "8", "9"}

DigitVal(c) == CASE c = "0" -> 0 [] c = "1" -> 1 [] c = "2" -> 2 [] c = "3" -> 3
                 [] c = "4" -> 4 [] c = "5" -> 5 [] c = "6" -> 6 [] c = "7" -> 7
                 [] c = "8" -> 8 [] c = "9" -> 9

\* str.strip()
RECURSIVE LStrip(_)
LStrip(s) == IF s # <<>> /\ IsSpace(Head(s)) THEN LStrip(Tail(s)) ELSE s

RECURSIVE RStrip(_)
RStrip(s) == IF s # <<>> /\ IsSpace(s[Len(s)]) THEN RStrip(SubSeq(s, 1, Len(s) - 1)) ELSE s

Strip(s) == RStrip(LStrip(s))

\* sub in s
Contains(s, sub) ==
    \E k \in 1..(Len(s) - Len(sub) + 1) : SubSeq(s, k, k + Len(sub) - 1) = sub

PART_II == <<"P", "a", "r", "t", " ", "I", "I">>

\* length of the longest prefix of s matched by \d* / \s*
RECURSIVE DigitsLen(_)
DigitsLen(s) == IF s # <<>> /\ IsDigit(Head(s)) THEN 1 + DigitsLen(Tail(s)) ELSE 0

RECURSIVE SpacesLen(_)
SpacesLen(s) == IF s # <<>> /\ IsSpace(Head(s)) THEN 1 + SpacesLen(Tail(s)) ELSE 0

\* int(digits)
RECURSIVE ToInt(_)
ToInt(ds) == IF ds = <<>> THEN 0
             ELSE 10 * ToInt(SubSeq(ds, 1, Len(ds) - 1)) + DigitVal(ds[Len(ds)])

\* re.match(r'^\d+\.\s+', s)
MatchesHeaderPrefix(s) ==
    LET n == DigitsLen(s)
    IN  n >= 1 /\ Len(s) >= n + 2 /\ s[n + 1] = "." /\ IsSpace(s[n + 2])

\* re.match(r'^(\d+)\.\s+(.+?)$', s): the greedy \s+ gives one space back to
\* .+? when nothing else follows the dot
MatchesFieldHeader(s) ==
    LET n == DigitsLen(s)
    IN  n >= 1 /\ Len(s) >= n + 3 /\ s[n + 1] = "." /\ IsSpace(s[n + 2])

\* int(match.group(1))
HeaderNum(s) == ToInt(SubSeq(s, 1, DigitsLen(s)))

\* match.group(2).strip()
HeaderLabel(s) ==
    LET n == DigitsLen(s)
        m == SpacesLen(SubSeq(s, n + 2, Len(s)))
        group2 == IF n + 1 + m < Len(s) THEN SubSeq(s, n + 2 + m, Len(s))
                  ELSE <<s[Len(s)]>>
    IN  Strip(group2)

\* " ".join(xs)
RECURSIVE JoinSpace(_)
JoinSpace(xs) == IF xs = <<>> THEN <<>>
                 ELSE IF Len(xs) = 1 THEN xs[1]
                 ELSE xs[1] \o <<" ">> \o JoinSpace(Tail(xs))

(***************************************************************************)
(* PDFExtractor._extract_part_i_filled                                     *)
(***************************************************************************)
FilledLines ==
    { <<"2", ".", " ", "A">>,
      <<" ", "2", ".", " ", " ", "B", " ">>,
      <<"1", "9", ".", " ", "E">>,
      <<"2", "0", ".", " ", "C">>,
      <<"0", ".", " ", "D">>,
      <<"2", ".", "F">>,
      <<" ", "x", " ", "y", " ">>,
      <<>>,
      PART_II,
      <<"3", ".", " ", "P", "a", "r", "t", " ", "I", "I", " ", "z">> }

\* variant: the lower bound of the range test is 0
InRangeFromZero(field_num) == 0 <= field_num /\ field_num <= 19

\* variant: the upper bound of the range test is 20
InRangeUpTo20(field_num) == 1 <= field_num /\ field_num <= 20

\* 1 <= field_num <= 19
InRange(field_num) == 1 <= field_num /\ field_num <= 19

\* variant: the value loop leaves the cursor on the line that stopped it
RECURSIVE ConsumeValueNoStepBack(_, _, _)
ConsumeValueNoStepBack(ls, j, value_lines) ==
    IF j < Len(ls) /\ Strip(ls[j + 1]) # <<>>
    THEN LET next_line == Strip(ls[j + 1])
         IN  IF MatchesHeaderPrefix(next_line) \/ Contains(next_line, PART_II)
             THEN [i |-> j, value_lines |-> value_lines]
             ELSE ConsumeValueNoStepBack(ls, j + 1, Append(value_lines, next_line))
    ELSE [i |-> j, value_lines |-> value_lines]

\* variant: the value loop does not test for "Part II"
RECURSIVE ConsumeValueNoPartII(_, _, _)
ConsumeValueNoPartII(ls, j, value_lines) ==
    IF j < Len(ls) /\ Strip(ls[j + 1]) # <<>>
    THEN LET next_line == Strip(ls[j + 1])
         IN  IF MatchesHeaderPrefix(next_line)
             THEN [i |-> j - 1, value_lines |-> value_lines]
             ELSE ConsumeValueNoPartII(ls, j + 1, Append(value_lines, next_line))
    ELSE [i |-> j, value_lines |-> value_lines]

\* variant: the value loop steps the cursor back by two
RECURSIVE ConsumeValueStepBackTwo(_, _, _)
ConsumeValueStepBackTwo(ls, j, value_lines) ==
    IF j < Len(ls) /\ Strip(ls[j + 1]) # <<>>
    THEN LET next_line == Strip(ls[j + 1])
         IN  IF MatchesHeaderPrefix(next_line) \/ Contains(next_line, PART_II)
             THEN [i |-> j - 2, value_lines |-> value_lines]
             ELSE ConsumeValueStepBackTwo(ls, j + 1, Append(value_lines, next_line))
    ELSE [i |-> j, value_lines |-> value_lines]

\* the value loop: while i < len(lines) and lines[i].strip(): ...
\* j is the cursor (0-based); returns the cursor and the lines consumed
RECURSIVE ConsumeValue(_, _, _)
ConsumeValue(ls, j, value_lines) ==
    IF j < Len(ls) /\ Strip(ls[j + 1]) # <<>>
    THEN LET next_line == Strip(ls[j + 1])
         IN  IF MatchesHeaderPrefix(next_line) \/ Contains(next_line, PART_II)
             THEN [i |-> j - 1, value_lines |-> value_lines]
             ELSE ConsumeValue(ls, j + 1, Append(value_lines, next_line))
    ELSE [i |-> j, value_lines |-> value_lines]

\* part_i[field_num] = {...}
StoreField(m, field_num, entry) ==
    [k \in DOMAIN m \cup {field_num} |-> IF k = field_num THEN entry ELSE m[k]]

DetectorIdle == /\ template_clauses = <<>>
                /\ recap_clauses = <<>>
                /\ pc = "idle"
                /\ template_lines = <<>>
                /\ recap_lines = <<>>
                /\ amendments = Skeleton
                /\ raised = "none"
                /\ result = Skeleton

\* ''.split('\n') is [''], so there is at least one line
InitFilled == /\ lines \in SeqsUpTo(FilledLines, MaxDocLines) \ {<<>>}
              /\ i = 0
              /\ part_i = <<>>
              /\ fpc = "scan"
              /\ headers = <<>>
              /\ DetectorIdle
              /\ ClausesIdle
              /\ MapperIdle
              /\ FlowIdle

\* the line at the cursor, stripped
CurLine == Strip(lines[i + 1])

\* if "Part II" in line: break
ScanPartII ==
    /\ fpc = "scan"
    /\ i < Len(lines)
    /\ Contains(CurLine, PART_II)
    /\ fpc' = "done"
    /\ UNCHANGED <<lines, i, part_i, headers>>
    /\ UNCHANGED <<detVars, clsVars, mapVars, flowVars>>

\* if match: ... value loop ... store when in range; i += 1
ScanHeader ==
    /\ fpc = "scan"
    /\ i < Len(lines)
    /\ ~Contains(CurLine, PART_II)
    /\ MatchesFieldHeader(CurLine)
    /\ LET field_num   == HeaderNum(CurLine)
           field_label == HeaderLabel(CurLine)
           r           == ConsumeValue(lines, i + 1, <<>>)
       IN  /\ part_i' = IF InRange(field_num)
                        THEN StoreField(part_i, field_num,
                                        [label      |-> field_label,
                                         value      |-> Strip(JoinSpace(r.value_lines)),
                                         line_index |-> r.i])
                        ELSE part_i
           /\ i' = r.i + 1
    /\ headers' = Append(headers, i)
    /\ UNCHANGED <<lines, fpc>>
    /\ UNCHANGED <<detVars, clsVars, mapVars, flowVars>>

\* no match: i += 1
ScanOther ==
    /\ fpc = "scan"
    /\ i < Len(lines)
    /\ ~Contains(CurLine, PART_II)
    /\ ~MatchesFieldHeader(CurLine)
    /\ i' = i + 1
    /\ UNCHANGED <<lines, part_i, fpc, headers>>
    /\ UNCHANGED <<detVars, clsVars, mapVars, flowVars>>

\* while i < len(lines) fails: return part_i
ScanEnd ==
    /\ fpc = "scan"
    /\ i >= Len(lines)
    /\ fpc' = "done"
    /\ UNCHANGED <<lines, i, part_i, headers>>
    /\ UNCHANGED <<detVars, clsVars, mapVars, flowVars>>

NextFilled == \/ ScanPartII
              \/ ScanHeader
              \/ ScanOther
              \/ ScanEnd

SpecFilled == InitFilled /\ [][NextFilled]_vars

(***************************************************************************)
(* Properties of detect_amendments                                         *)
(***************************************************************************)
Returned       == pc = "done"
ReturnedNormal == pc = "done" /\ raised = "none"

\* the ContentLines of a tree, in document order (clauses without a content
\* list contribute nothing)
RECURSIVE TreeItems(_)
TreeItems(tree) ==
    IF tree = <<>> THEN <<>>
    ELSE (IF Head(tree).kind = "list" THEN Head(tree).content ELSE <<>>)
         \o TreeItems(Tail(tree))

TextsOf(s) == {s[k].text : k \in 1..Len(s)}

TemplateTexts == TextsOf(TreeItems(template_clauses))
RecapTexts    == TextsOf(TreeItems(recap_clauses))

NoDuplicateTexts(s) == \A j, k \in 1..Len(s) : s[j].text = s[k].text => j = k

\* index of the first / last element of s that has text t
FirstIdx(t, s) == CHOOSE k \in 1..Len(s) :
                     s[k].text = t /\ \A j \in 1..(k-1) : s[j].text # t
LastIdx(t, s)  == CHOOSE k \in 1..Len(s) :
                     s[k].text = t /\ \A j \in (k+1)..Len(s) : s[j].text # t

\* C1: whenever a step of detect_amendments raised, the value returned is the
\* initial empty skeleton (four keys, each an empty sequence)
C1_ExceptionYieldsSkeleton ==
    (pc = "done" /\ raised # "none") => result = Skeleton

\* C2: on a normal return the texts of deleted are exactly the distinct
\* template texts that do not occur in the recap, one record per text
C2_DeletedExact ==
    ReturnedNormal =>
        /\ TextsOf(result.deleted) = TemplateTexts \ RecapTexts
        /\ NoDuplicateTexts(result.deleted)

C2_Witness ==
    /\ ReturnedNormal
    /\ result.deleted # <<>>
    /\ TemplateTexts \cap RecapTexts # {}
    /\ \E j, k \in 1..Len(template_lines) :
          j # k /\ template_lines[j].text = template_lines[k].text
                /\ template_lines[j].text \in TextsOf(result.deleted)

\* recap texts carried by SOME recap ContentLine tagged original = false
RecapTextsSomeNonOriginal ==
    LET s == TreeItems(recap_clauses)
    IN  {s[k].text : k \in {n \in 1..Len(s) : s[n].original = "false"}}

\* recap texts whose LAST ContentLine in document order is tagged original = false
RecapTextsLastNonOriginal ==
    LET s == TreeItems(recap_clauses)
    IN  {t \in TextsOf(s) : s[LastIdx(t, s)].original = "false"}

NoExplicitFalse ==
    \A x \in Range(TreeItems(template_clauses)) \cup Range(TreeItems(recap_clauses)) :
        x.original # "false"

\* C3 as stated: added has exactly one record per recap text that is absent
\* from the template and is carried by a recap line flagged original = false
C3_AddedAnyOccurrence ==
    ReturnedNormal =>
        /\ TextsOf(result.added) = RecapTextsSomeNonOriginal \ TemplateTexts
        /\ NoDuplicateTexts(result.added)

\* C3 amended: added has exactly one record per recap text that is absent
\* from the template and whose last occurrence in the flattened recap is
\* flagged original = false; without explicit original = false tags added is empty
C3_AddedLastOccurrence ==
    ReturnedNormal =>
        /\ TextsOf(result.added) = RecapTextsLastNonOriginal \ TemplateTexts
        /\ NoDuplicateTexts(result.added)
        /\ (NoExplicitFalse => result.added = <<>>)

C3_Witness ==
    /\ ReturnedNormal
    /\ result.added # <<>>
    /\ \E j, k \in 1..Len(recap_lines) :
          /\ j < k
          /\ recap_lines[j].text = recap_lines[k].text
          /\ recap_lines[j].original /\ ~recap_lines[k].original

\* the new records the claim expects of one clause: ContentLines whose line is
\* absent and whose original is false, an untagged ContentLine counting as original
ExpectedNewOfClause(clause) ==
    LET Keep(x) == x.line = NoneVal /\ x.original = "false"
        kept == SelectSeq(IF clause.kind = "list" THEN clause.content ELSE <<>>, Keep)
    IN  [k \in 1..Len(kept) |->
           [text |-> kept[k].text, clause |-> clause.title, position |-> "after_clause"]]

ExpectedNew(tree) == Flatten([n \in 1..Len(tree) |-> ExpectedNewOfClause(tree[n])])

\* C4: new holds one record per recap ContentLine whose line is absent and
\* whose original is false (untagged counts as original), and nothing else
C4_NewExact ==
    ReturnedNormal => result.new = ExpectedNew(recap_clauses)

\* number of elements of s satisfying a (text, clause) match
CountNew(s, t, c) == Cardinality({k \in 1..Len(s) : s[k].text = t /\ s[k].clause = c})

CountAbsentLine(clause, t) ==
    IF clause.kind # "list" THEN 0
    ELSE Cardinality({k \in 1..Len(clause.content) :
                        clause.content[k].text = t /\ clause.content[k].line = NoneVal})

\* C5: every new record originates from a recap ContentLine whose line is
\* absent: per clause and text there are no more new records than ContentLines
\* of that clause with that text and no printed line number
C5_NewOnlyFromAbsentLine ==
    ReturnedNormal =>
        \A n \in 1..Len(recap_clauses) :
            \A t \in RecapTexts :
                CountNew(result.new, t, recap_clauses[n].title)
                    <= CountAbsentLine(recap_clauses[n], t)

RECURSIVE IsSubseq(_, _)
IsSubseq(s, t) ==
    IF s = <<>> THEN TRUE
    ELSE IF t = <<>> THEN FALSE
    ELSE IF Head(s) = Head(t) THEN IsSubseq(Tail(s), Tail(t))
    ELSE IsSubseq(s, Tail(t))

ClauseIdx(title) == CHOOSE n \in 1..Len(recap_clauses) : recap_clauses[n].title = title

TextSeq(s) == [k \in 1..Len(s) |-> s[k].text]

C7_ModifiedEmpty ==
    Returned => ("modified" \in DOMAIN result /\ result.modified = <<>>)

C7_Witness ==
    /\ Returned
    /\ raised = "find_new"
    /\ result.deleted # <<>>

(***************************************************************************)
(* Properties of _extract_part_i_filled                                    *)
(***************************************************************************)
ScanDone == fpc = "done"

IsBlankLine(l)  == Strip(l) = <<>>
IsHeaderLine(l) == MatchesFieldHeader(Strip(l))
IsPartIILine(l) == Contains(Strip(l), PART_II)

HasPartII == \E k \in 1..Len(lines) : IsPartIILine(lines[k])

\* 1-based position of the first line containing "Part II" (Len + 1 if none)
FirstPartII ==
    IF HasPartII
    THEN CHOOSE k \in 1..Len(lines) :
            IsPartIILine(lines[k]) /\ \A j \in 1..(k - 1) : ~IsPartIILine(lines[j])
    ELSE Len(lines) + 1

\* 1-based positions of the header lines that precede the first "Part II" line
HeaderPositions == {h \in 1..(FirstPartII - 1) : IsHeaderLine(lines[h])}

\* 1-based position of the first line after h that is blank, a header or a
\* "Part II" line (Len + 1 if none)
StopperOf(h) ==
    LET Stops(e) == e = Len(lines) + 1 \/ IsBlankLine(lines[e])
                       \/ IsHeaderLine(lines[e]) \/ IsPartIILine(lines[e])
    IN  CHOOSE e \in (h + 1)..(Len(lines) + 1) :
            Stops(e) /\ \A j \in (h + 1)..(e - 1) : ~Stops(j)

\* single-space join of the stripped lines strictly between h and its stopper
ValueBlock(h) ==
    JoinSpace([k \in 1..(StopperOf(h) - h - 1) |-> Strip(lines[h + k])])

\* the last header line before "Part II" that carries number n
LastHeaderWith(n) ==
    CHOOSE h \in HeaderPositions :
        /\ HeaderNum(Strip(lines[h])) = n
        /\ \A g \in HeaderPositions : HeaderNum(Strip(lines[g])) = n => g <= h

\* C8: at every point of the filled-mode scan every key of the field map is
\* an integer in 1..19
C8_KeysInRange == DOMAIN part_i \subseteq 1..19

C8_Witness ==
    /\ ScanDone
    /\ DOMAIN part_i # {}
    /\ \E k \in 1..Len(headers) : HeaderNum(Strip(lines[headers[k] + 1])) = 0
    /\ \E k \in 1..Len(headers) : HeaderNum(Strip(lines[headers[k] + 1])) > 19

\* C9: the value stored under a field number is the single-space join of the
\* stripped lines between its header and the first following line that is
\* blank, a header or a "Part II" line; and every header line that precedes
\* "Part II", also one that stopped an accumulation, is processed as a header
C9_ValueIsBlock ==
    ScanDone =>
        LET hp == HeaderPositions
        IN  /\ \A n \in DOMAIN part_i :
                  /\ \E h \in hp : HeaderNum(Strip(lines[h])) = n
                  /\ LET last == LastHeaderWith(n)
                     IN  /\ part_i[n].value = ValueBlock(last)
                         /\ part_i[n].label = HeaderLabel(Strip(lines[last]))
            /\ {headers[k] + 1 : k \in 1..Len(headers)} = hp
            /\ HasPartII => i = FirstPartII - 1

C9_Witness ==
    /\ ScanDone
    /\ \E n \in DOMAIN part_i :
          /\ Len(part_i[n].value) > 0
          /\ StopperOf(LastHeaderWith(n)) <= Len(lines)
          /\ IsHeaderLine(lines[StopperOf(LastHeaderWith(n))])
          /\ HeaderNum(Strip(lines[StopperOf(LastHeaderWith(n))])) \in DOMAIN part_i \ {n}

\* the lines of the document that precede the first "Part II" line
BeforePartII == SubSeq(lines, 1, FirstPartII - 1)

\* C10: the scan stops at the first line containing "Part II": the cursor
\* never passes it, only headers before it are processed or stored, and every
\* value is a join of stripped lines that follow such a header and precede it
C10_StopsAtPartII ==
    LET fp == FirstPartII
        before == BeforePartII
    IN  /\ fp <= Len(lines) => i <= fp - 1
        /\ \A k \in 1..Len(headers) : headers[k] + 1 < fp
        /\ \A n \in DOMAIN part_i :
              \E h \in 1..(fp - 1) :
                  /\ IsHeaderLine(before[h])
                  /\ HeaderNum(Strip(before[h])) = n
                  /\ \E e \in h..(fp - 1) :
                        part_i[n].value = JoinSpace([k \in 1..(e - h) |-> Strip(before[h + k])])

C10_Witness ==
    /\ ScanDone
    /\ HasPartII
    /\ FirstPartII < Len(lines)
    /\ IsHeaderLine(lines[FirstPartII + 1])
    /\ \E n \in DOMAIN part_i : /\ Len(part_i[n].value) > 0
                                /\ StopperOf(LastHeaderWith(n)) = FirstPartII

\* the cursor (0-based) an outer iteration that starts on the header at 1-based
\* position h must leave: on the stopper when that is a header or a "Part II"
\* line, past it when it is a blank line or the end of the document
CursorAfterHeader(h) ==
    LET e == StopperOf(h)
    IN  IF e <= Len(lines) /\ ~IsBlankLine(lines[e]) THEN e - 1 ELSE e

OutOfRangeHeaderAtCursor ==
    /\ fpc = "scan"
    /\ i < Len(lines)
    /\ ~IsPartIILine(lines[i + 1])
    /\ IsHeaderLine(lines[i + 1])
    /\ ~(HeaderNum(CurLine) \in 1..19)

\* C11: an iteration that starts on a header numbered outside 1..19 leaves the
\* field map unchanged and moves the cursor exactly as for an in-range header
\* (past the non-blank lines that follow, up to the first blank line, header
\* or "Part II" line); the lines it skips are never visited again, and the
\* header has ended the value of the field before it
C11_SilentDelimiter ==
    [][OutOfRangeHeaderAtCursor =>
          /\ part_i' = part_i
          /\ i' = CursorAfterHeader(i + 1)
          /\ \A n \in DOMAIN part_i : part_i[n].line_index <= i]_vars

C11_Witness ==
    /\ ScanDone
    /\ \E k \in 1..Len(headers) :
          LET h == headers[k] + 1
          IN  /\ ~(HeaderNum(Strip(lines[h])) \in 1..19)
              /\ StopperOf(h) > h + 1
              /\ \E n \in DOMAIN part_i :
                    /\ Len(part_i[n].value) > 0
                    /\ StopperOf(LastHeaderWith(n)) = h

\* C18: every iteration of the outer loop leaves the cursor strictly greater
\* than it found it (or leaves the loop), the cursor is never negative and
\* never exceeds len(lines) + 1, so the scan ends after at most len(lines) + 1
\* iterations
C18_CursorAdvances ==
    [][/\ i >= 0 /\ i' >= 0
       /\ i' <= Len(lines) + 1
       /\ (i' > i \/ (i' = i /\ fpc' = "done"))]_vars

C18_Witness ==
    /\ fpc = "scan"
    /\ \E k \in 1..Len(headers) :
          /\ headers[k] + 2 <= Len(lines)
          /\ IsHeaderLine(lines[headers[k] + 2])
          /\ i = headers[k] + 1

\* the record of s at position k carries the line and clause title of flattened line x
CarriesLineOf(r, x) == r.line = x.line /\ r.clause = x.clause_title

\* C19: the single deleted (added) record of a text carries the line number
\* and clause title of the LAST flattened template (recap) line with that
\* text, the original flag of that last recap line decides whether the text is
\* added, and the record stands where the text FIRST occurs
C19_LastOccurrenceWins ==
    ReturnedNormal =>
        /\ \A k \in 1..Len(result.deleted) :
              LET t == result.deleted[k].text
              IN  /\ CarriesLineOf(result.deleted[k], template_lines[LastIdx(t, template_lines)])
                  /\ Cardinality({u \in TextsOf(template_lines) \ TextsOf(recap_lines) :
                                    FirstIdx(u, template_lines) < FirstIdx(t, template_lines)})
                       = k - 1
        /\ \A k \in 1..Len(result.added) :
              LET t == result.added[k].text
              IN  /\ CarriesLineOf(result.added[k], recap_lines[LastIdx(t, recap_lines)])
                  /\ ~recap_lines[LastIdx(t, recap_lines)].original
                  /\ Cardinality({u \in TextsOf(result.added) :
                                    FirstIdx(u, recap_lines) < FirstIdx(t, recap_lines)})
                       = k - 1
        /\ \A t \in TextsOf(recap_lines) \ TextsOf(template_lines) :
              recap_lines[LastIdx(t, recap_lines)].original => t \notin TextsOf(result.added)

C19_Witness ==
    /\ ReturnedNormal
    /\ \E k \in 1..Len(result.deleted) :
          LET t == result.deleted[k].text
              f == template_lines[FirstIdx(t, template_lines)]
              l == template_lines[LastIdx(t, template_lines)]
          IN  f.line # l.line /\ f.clause_title # l.clause_title
    /\ \E k \in 1..Len(result.added) :
          LET t == result.added[k].text
              f == recap_lines[FirstIdx(t, recap_lines)]
              l == recap_lines[LastIdx(t, recap_lines)]
          IN  f.original /\ ~l.original /\ f.clause_title # l.clause_title

\* C20: no text of a record in new is also the text of a record in added
C20_NewAddedDisjoint ==
    ReturnedNormal => TextsOf(result.new) \cap TextsOf(result.added) = {}

\* C20 amended: a text is reported in both new and added only when it does not
\* occur in the template and its last occurrence in the flattened recap is
\* flagged original = false; no text of a record in new is the text of a
\* record in deleted
C20_NewAddedOverlap ==
    ReturnedNormal =>
        /\ \A t \in TextsOf(result.new) \cap TextsOf(result.added) :
              /\ t \notin TemplateTexts
              /\ t \in RecapTextsLastNonOriginal
        /\ TextsOf(result.new) \cap TextsOf(result.deleted) = {}

C20_Witness ==
    /\ ReturnedNormal
    /\ TextsOf(result.new) \cap TextsOf(result.added) # {}
    /\ (TextsOf(result.new) \cap TemplateTexts) \ TextsOf(result.added) # {}
    /\ result.deleted # <<>>

(***************************************************************************)
(* PDFExtractor._extract_part_ii_template / _extract_part_ii_filled        *)
(***************************************************************************)
MaxClauseDocLines == 4

NL == "\n"

CLAUSE == <<"C", "l", "a", "u", "s", "e">>

\* "\n".join(doc)
RECURSIVE JoinLines(_)
JoinLines(doc) == IF doc = <<>> THEN <<>>
                  ELSE IF Len(doc) = 1 THEN doc[1]
                  ELSE doc[1] \o <<NL>> \o JoinLines(Tail(doc))

\* the page lines the documents are made of
ClauseDocLines ==
    { PART_II,
      <<"C", "l", "a", "u", "s", "e", " ", "1", ".", " ", "A">>,
      <<"C", "l", "a", "u", "s", "e", "2", ".", "B">>,
      <<" ", "C", "l", "a", "u", "s", "e", " ", "3", ".", " ", "C">>,
      <<"C", "l", "a", "u", "s", "e", " ", "4", ".", " ">>,
      <<" ", "1", "2", " ", " ", "x", " ">>,
      <<"z", "z">>,
      <<>> }

\* position of the first occurrence of sub in s, 0 if there is none
FindFirst(s, sub) ==
    IF Contains(s, sub)
    THEN CHOOSE k \in 1..(Len(s) - Len(sub) + 1) :
            /\ SubSeq(s, k, k + Len(sub) - 1) = sub
            /\ \A j \in 1..(k - 1) : SubSeq(s, j, j + Len(sub) - 1) # sub
    ELSE 0

\* text.split("Part II")[1], for a text that contains "Part II": what lies
\* between the first occurrence and the next one (or the end)
SplitPartIISecond(text) ==
    LET rest == SubSeq(text, FindFirst(text, PART_II) + Len(PART_II), Len(text))
        k2   == FindFirst(rest, PART_II)
    IN  IF k2 = 0 THEN rest ELSE SubSeq(rest, 1, k2 - 1)

\* if "Part II" in full_text: part_ii_text = full_text.split("Part II")[1]
\* else: part_ii_text = full_text
PartIIText(text) == IF Contains(text, PART_II) THEN SplitPartIISecond(text) ELSE text

\* s.split('\n')
RECURSIVE SplitLines(_)
SplitLines(s) ==
    LET k == FindFirst(s, <<NL>>)
    IN  IF k = 0 THEN <<s>>
        ELSE <<SubSeq(s, 1, k - 1)>> \o SplitLines(SubSeq(s, k + 1, Len(s)))

StartsWith(s, p) == Len(s) >= Len(p) /\ SubSeq(s, 1, Len(p)) = p

\* what follows "Clause" and the optional whitespace
AfterClauseWord(s) == LStrip(SubSeq(s, Len(CLAUSE) + 1, Len(s)))

\* re.match(r'^Clause\s*(\d+)\.\s*(.+)$', s): \s* gives way to .+, which needs
\* one character after the dot
MatchesClauseHeader(s) ==
    /\ StartsWith(s, CLAUSE)
    /\ LET r == AfterClauseWord(s)
           n == DigitsLen(r)
       IN  n >= 1 /\ Len(r) >= n + 2 /\ r[n + 1] = "."

\* int(clause_header_match.group(1))
ClauseNum(s) == ToInt(SubSeq(AfterClauseWord(s), 1, DigitsLen(AfterClauseWord(s))))

\* re.match(r'^(\d+)\s+(.+)$', s)
MatchesNumbered(s) ==
    LET n == DigitsLen(s)
    IN  n >= 1 /\ Len(s) >= n + 2 /\ IsSpace(s[n + 1])

\* int(numbered_line_match.group(1))
NumberedNum(s) == ToInt(SubSeq(s, 1, DigitsLen(s)))

\* numbered_line_match.group(2).strip(): the greedy \s+ gives one space back
\* to .+ when only whitespace follows the digits
NumberedText(s) ==
    LET n == DigitsLen(s)
        m == SpacesLen(SubSeq(s, n + 1, Len(s)))
        group2 == IF n + m < Len(s) THEN SubSeq(s, n + m + 1, Len(s))
                  ELSE <<s[Len(s)]>>
    IN  Strip(group2)

NewClause(num, title) == [line |-> num, title |-> title, content |-> <<>>]

ContentLine(num, text) == [line |-> num, text |-> text]

\* variant: the content line goes to the first clause of the list
AppendToFirstClause(cl, item) ==
    [cl EXCEPT ![1].content = Append(@, item)]

\* current_clause["content"].append(item); current_clause is the clause
\* appended last
AppendToCurrent(cl, item) ==
    [cl EXCEPT ![Len(cl)].content = Append(@, item)]

\* variant: a header whose number is already in the list opens no clause
TemplateLineStepMergeDup(cl, line) ==
    LET stripped == Strip(line)
    IN  IF stripped = <<>> THEN cl
        ELSE IF MatchesClauseHeader(stripped)
        THEN IF \E k \in 1..Len(cl) : cl[k].line = ClauseNum(stripped)
             THEN cl
             ELSE Append(cl, NewClause(ClauseNum(stripped), stripped))
        ELSE IF MatchesNumbered(stripped) /\ cl # <<>>
        THEN AppendToCurrent(cl, ContentLine(NumberedNum(stripped), NumberedText(stripped)))
        ELSE IF cl # <<>>
        THEN AppendToCurrent(cl, ContentLine(NoneVal, stripped))
        ELSE cl

\* one iteration of the for loop of _extract_part_ii_template
TemplateLineStep(cl, line) ==
    LET stripped == Strip(line)
    IN  IF stripped = <<>> THEN cl
        ELSE IF MatchesClauseHeader(stripped)
        THEN Append(cl, NewClause(ClauseNum(stripped), stripped))
        ELSE IF MatchesNumbered(stripped) /\ cl # <<>>
        THEN AppendToCurrent(cl, ContentLine(NumberedNum(stripped), NumberedText(stripped)))
        ELSE IF cl # <<>>
        THEN AppendToCurrent(cl, ContentLine(NoneVal, stripped))
        ELSE cl

\* one iteration of the for loop of _extract_part_ii_filled: the header
\* pattern is applied to the raw line, the numbered pattern is
\* r'^\s*(\d+)\s+(.+)$'
FilledLineStep(cl, line) ==
    IF MatchesClauseHeader(line)
    THEN Append(cl, NewClause(ClauseNum(line), Strip(line)))
    ELSE IF MatchesNumbered(LStrip(line)) /\ cl # <<>>
    THEN AppendToCurrent(cl, ContentLine(NumberedNum(LStrip(line)),
                                         NumberedText(LStrip(line))))
    ELSE IF cl # <<>> /\ Strip(line) # <<>>
    THEN AppendToCurrent(cl, ContentLine(NoneVal, Strip(line)))
    ELSE cl

\* the whole for loop, from the clause list cl over the lines ls
RECURSIVE TemplateLoop(_, _)
TemplateLoop(cl, ls) ==
    IF ls = <<>> THEN cl ELSE TemplateLoop(TemplateLineStep(cl, Head(ls)), Tail(ls))

RECURSIVE FilledLoop(_, _)
FilledLoop(cl, ls) ==
    IF ls = <<>> THEN cl ELSE FilledLoop(FilledLineStep(cl, Head(ls)), Tail(ls))

_extract_part_ii_template(text) == TemplateLoop(<<>>, SplitLines(PartIIText(text)))

_extract_part_ii_filled(text) == FilledLoop(<<>>, SplitLines(PartIIText(text)))

InitClauses ==
    /\ mode \in {"template", "filled"}
    /\ full_text \in {JoinLines(doc) : doc \in SeqsUpTo(ClauseDocLines, MaxClauseDocLines)}
    /\ clines = <<>>
    /\ cpos = 0
    /\ part_ii = <<>>
    /\ cpc = "split"
    /\ DetectorIdle
    /\ FieldsIdle
    /\ MapperIdle
    /\ FlowIdle

\* part_ii_text = ...; lines = part_ii_text.split('\n')
SplitText ==
    /\ cpc = "split"
    /\ clines' = SplitLines(PartIIText(full_text))
    /\ cpc' = "loop"
    /\ UNCHANGED <<mode, full_text, cpos, part_ii>>
    /\ UNCHANGED <<detVars, fldVars, mapVars, flowVars>>

\* for line in lines: (template mode)
TemplateLine ==
    /\ cpc = "loop"
    /\ mode = "template"
    /\ cpos < Len(clines)
    /\ part_ii' = TemplateLineStep(part_ii, clines[cpos + 1])
    /\ cpos' = cpos + 1
    /\ UNCHANGED <<mode, full_text, clines, cpc>>
    /\ UNCHANGED <<detVars, fldVars, mapVars, flowVars>>

\* for line in lines: (filled mode)
FilledLine ==
    /\ cpc = "loop"
    /\ mode = "filled"
    /\ cpos < Len(clines)
    /\ part_ii' = FilledLineStep(part_ii, clines[cpos + 1])
    /\ cpos' = cpos + 1
    /\ UNCHANGED <<mode, full_text, clines, cpc>>
    /\ UNCHANGED <<detVars, fldVars, mapVars, flowVars>>

\* return clauses
ReturnClauses ==
    /\ cpc = "loop"
    /\ cpos = Len(clines)
    /\ cpc' = "done"
    /\ UNCHANGED <<mode, full_text, clines, cpos, part_ii>>
    /\ UNCHANGED <<detVars, fldVars, mapVars, flowVars>>

NextClauses == \/ SplitText
               \/ TemplateLine
               \/ FilledLine
               \/ ReturnClauses

SpecClauses == InitClauses /\ [][NextClauses]_vars

(***************************************************************************)
(* Claims about clause extraction                                          *)
(***************************************************************************)
ClausesDone == cpc = "done"

\* everything that follows the first "Part II", the whole text without one
AfterFirstMarker(text) ==
    IF Contains(text, PART_II)
    THEN SubSeq(text, FindFirst(text, PART_II) + Len(PART_II), Len(text))
    ELSE text

ExtractFrom(m, ls) == IF m = "template" THEN TemplateLoop(<<>>, ls) ELSE FilledLoop(<<>>, ls)

\* C12: in both modes the returned clauses are the ones extracted from
\* everything after the first "Part II" (from the whole text without a
\* marker), also when "Part II" occurs again later in the text.
C12_RegionAfterFirstMarker ==
    ClausesDone => part_ii = ExtractFrom(mode, SplitLines(AfterFirstMarker(full_text)))

\* C13: template mode and filled mode return the same clause tree for every
\* document text.
C13_ModesAgree ==
    ClausesDone =>
        part_ii = IF mode = "template" THEN _extract_part_ii_filled(full_text)
                  ELSE _extract_part_ii_template(full_text)

TemplateHeaderAt(k) == MatchesClauseHeader(Strip(clines[k]))

\* number of clause headers among the first k scanned lines
HeadersUpTo(k) == Cardinality({j \in 1..k : TemplateHeaderAt(j)})

StartsWithDigitsThenSpace(s) ==
    DigitsLen(s) >= 1 /\ Len(s) > DigitsLen(s) /\ IsSpace(s[DigitsLen(s) + 1])

\* the ContentLine a non-blank, non-header line s stands for
ExpectedContentLine(s) ==
    IF StartsWithDigitsThenSpace(s)
    THEN [line |-> ToInt(SubSeq(s, 1, DigitsLen(s))),
          text |-> LStrip(SubSeq(s, DigitsLen(s) + 1, Len(s)))]
    ELSE [line |-> NoneVal, text |-> s]

\* positions, in document order, of the non-blank non-header lines whose
\* nearest preceding header is the c-th one
ContentPositions(c) ==
    LET Belongs(k) == /\ Strip(clines[k]) # <<>>
                      /\ ~TemplateHeaderAt(k)
                      /\ HeadersUpTo(k) = c
    IN  SelectSeq([k \in 1..Len(clines) |-> k], Belongs)

\* C14: in template mode every non-blank line after the first header that is
\* not a header is, exactly once and in document order, in the content of
\* the nearest preceding header, numbered or continuation by its shape;
\* blank lines and lines before the first header are in no clause.
C14_ContentPlacement ==
    (ClausesDone /\ mode = "template") =>
        /\ Len(part_ii) = HeadersUpTo(Len(clines))
        /\ \A c \in 1..Len(part_ii) :
              part_ii[c].content =
                  [j \in 1..Len(ContentPositions(c)) |->
                      ExpectedContentLine(Strip(clines[ContentPositions(c)[j]]))]

C14_Witness ==
    /\ ClausesDone
    /\ mode = "template"
    /\ Len(clines) >= 1 /\ Strip(clines[1]) # <<>> /\ ~TemplateHeaderAt(1)
    /\ \E c \in 1..Len(part_ii) :
          /\ Len(part_ii[c].content) = 2
          /\ part_ii[c].content[1].line # NoneVal
          /\ part_ii[c].content[2].line = NoneVal

IsHeaderIn(m, line) ==
    IF m = "template" THEN MatchesClauseHeader(Strip(line)) ELSE MatchesClauseHeader(line)

HeaderLines == LET Test(l) == IsHeaderIn(mode, l) IN SelectSeq(clines, Test)

\* C15: the result has one clause per header line of the scanned region, in
\* the order met, each with its own number and title, duplicates and
\* out-of-order numbers included; no header gives the empty list.
C15_OneClausePerHeader ==
    ClausesDone =>
        /\ Len(part_ii) = Len(HeaderLines)
        /\ \A k \in 1..Len(part_ii) :
              /\ part_ii[k].line = ClauseNum(Strip(HeaderLines[k]))
              /\ part_ii[k].title = Strip(HeaderLines[k])

C15_Witness ==
    /\ ClausesDone
    /\ Len(part_ii) = 3
    /\ part_ii[1].line = part_ii[3].line
    /\ part_ii[2].line < part_ii[1].line

(***************************************************************************)
(* FieldMapper.extract_part_i_fields                                       *)
(***************************************************************************)
\* a key the dict does not hold
AbsentKey == "<absent>"

\* FieldMapper.FIELD_LABELS
FIELD_LABELS ==
    << "Charter Party Form", "Vessel Name", "Flag / Class", "Owners",
       "Charterers", "Brokers / Commission", "Date & Place of Fixture",
       "Laycan", "Cargo Description", "Quantity", "Load Port(s)",
       "Discharge Port(s)", "Freight / Rate / Basis", "Payment Terms",
       "Laytime", "Demurrage / Despatch", "NOR / Notice / Time Counting",
       "Law & Arbitration", "Special Provisions" >>

\* range(1, 20)
FieldRange == 1..19

\* self.FIELD_LABELS.get(field_num, "")
LabelOf(n) == IF n \in DOMAIN FIELD_LABELS THEN FIELD_LABELS[n] ELSE ""

\* d.get(key, default) for an entry of the Part I map
EntryGet(e, key, default) == IF e[key] = AbsentKey THEN default ELSE e[key]

\* the entries a Part I map holds: with both keys, with none
PartIEntries ==
    { [value |-> "MV X", label |-> "Vessel"],
      [value |-> AbsentKey, label |-> AbsentKey] }

\* the keys a Part I map may hold, inside and outside 1..19
PartIKeys == {0, 1, 7, 19, 20}

\* recap records: without "part_i", with a Part I map, with a "part_i" that
\* is None or a list
RecapRecords ==
    {[kind |-> k, part_i |-> <<>>] : k \in {"missing", "none", "list"}}
    \cup {[kind |-> "dict", part_i |-> m] :
             m \in UNION {[S -> PartIEntries] : S \in SUBSET PartIKeys}}

\* part_i_data = recap_data.get("part_i", {}); isinstance(part_i_data, dict)
PartIDataIsDict(rd) == rd.kind \in {"missing", "dict"}

\* part_i_data as a map: the default {} when the key is missing
PartIData(rd) == rd.part_i

\* fields[field_num] = {...}: the two branches of lines 50-60
FieldEntry(pd, n) ==
    IF n \in DOMAIN pd
    THEN [label |-> LabelOf(n),
          value |-> EntryGet(pd[n], "value", ""),
          original_label |-> EntryGet(pd[n], "label", "")]
    ELSE [label |-> LabelOf(n), value |-> ""]

InitMapper ==
    /\ recap_data \in RecapRecords
    /\ map_num = 0
    /\ fields = <<>>
    /\ mpc = "start"
    /\ DetectorIdle
    /\ FieldsIdle
    /\ ClausesIdle
    /\ FlowIdle

\* if isinstance(part_i_data, dict): for field_num in range(1, 20):
EnterLoop ==
    /\ mpc = "start"
    /\ PartIDataIsDict(recap_data)
    /\ map_num' = 1
    /\ mpc' = "loop"
    /\ UNCHANGED <<recap_data, fields>>
    /\ UNCHANGED <<detVars, fldVars, clsVars, flowVars>>

\* isinstance(part_i_data, dict) is false: the loop is skipped
SkipLoop ==
    /\ mpc = "start"
    /\ ~PartIDataIsDict(recap_data)
    /\ mpc' = "return"
    /\ UNCHANGED <<recap_data, map_num, fields>>
    /\ UNCHANGED <<detVars, fldVars, clsVars, flowVars>>

\* one iteration of the loop
MapField ==
    /\ mpc = "loop"
    /\ map_num \in FieldRange
    /\ fields' = fields @@ (map_num :> FieldEntry(PartIData(recap_data), map_num))
    /\ map_num' = map_num + 1
    /\ UNCHANGED <<recap_data, mpc>>
    /\ UNCHANGED <<detVars, fldVars, clsVars, flowVars>>

\* the range is exhausted
LeaveLoop ==
    /\ mpc = "loop"
    /\ map_num \notin FieldRange
    /\ mpc' = "return"
    /\ UNCHANGED <<recap_data, map_num, fields>>
    /\ UNCHANGED <<detVars, fldVars, clsVars, flowVars>>

\* return fields
ReturnFields ==
    /\ mpc = "return"
    /\ mpc' = "done"
    /\ UNCHANGED <<recap_data, map_num, fields>>
    /\ UNCHANGED <<detVars, fldVars, clsVars, flowVars>>

NextMapper == \/ EnterLoop
              \/ SkipLoop
              \/ MapField
              \/ LeaveLoop
              \/ ReturnFields

SpecMapper == InitMapper /\ [][NextMapper]_vars

(***************************************************************************)
(* Claims about the field mapper                                           *)
(***************************************************************************)
IsPlaceholder(e) == DOMAIN e = {"label", "value"} /\ e.value = ""

\* C16: the returned field map has exactly the keys 1..19, and a field
\* number the recap's Part I map lacks (the map itself may be missing or
\* not a mapping) is an empty-value placeholder.
C16_AllNineteenKeys ==
    mpc = "done" =>
        /\ DOMAIN fields = 1..19
        /\ \A n \in 1..19 :
              (recap_data.kind # "dict" \/ n \notin DOMAIN recap_data.part_i)
                  => IsPlaceholder(fields[n])

(***************************************************************************)
(* app/cli.py: process_charter_party                                       *)
(***************************************************************************)
\* what detect_amendments can hand back: the empty four-key skeleton, the
\* three-key result of _analyze_diff (the new-line pass raised), a full set
AmendmentKinds == {"skeleton", "partial", "full"}

AmendmentKeys(kind) ==
    IF kind = "partial" THEN {"deleted", "added", "modified"}
    ELSE {"deleted", "added", "modified", "new"}

\* what the run depends on: the files, the two extractions (they re-raise
\* on failure), the detector's result, mkdir, create_pdf's return value
Environments ==
    [template_exists : BOOLEAN, recap_exists : BOOLEAN,
     template_ok : BOOLEAN, recap_ok : BOOLEAN,
     amend : AmendmentKinds, mkdir_ok : BOOLEAN, pdf_ok : BOOLEAN]

\* variant: the log line also reads amendments['new']
LogLineRaisesNeedsNew(kind) ==
    ~({"deleted", "added", "new"} \subseteq AmendmentKeys(kind))

\* len(amendments['deleted']), len(amendments['added']) raise KeyError on a
\* missing key
LogLineRaises(kind) ==
    ~({"deleted", "added"} \subseteq AmendmentKeys(kind))

InitFlow ==
    /\ env \in Environments
    /\ wpc = "check_template"
    /\ calls = <<>>
    /\ success = FALSE
    /\ DetectorIdle
    /\ FieldsIdle
    /\ ClausesIdle
    /\ MapperIdle

\* return False (directly or from the except branch)
Fail ==
    /\ wpc' = "done"
    /\ success' = FALSE

\* if not template_file.exists(): return False
CheckTemplate ==
    /\ wpc = "check_template"
    /\ IF env.template_exists
       THEN wpc' = "check_recap" /\ UNCHANGED success
       ELSE Fail
    /\ UNCHANGED <<env, calls>>
    /\ UNCHANGED <<detVars, fldVars, clsVars, mapVars>>

\* if not recap_file.exists(): return False
CheckRecap ==
    /\ wpc = "check_recap"
    /\ IF env.recap_exists
       THEN wpc' = "extract_template" /\ UNCHANGED success
       ELSE Fail
    /\ UNCHANGED <<env, calls>>
    /\ UNCHANGED <<detVars, fldVars, clsVars, mapVars>>

\* template_data = extractor.extract_template(...)
ExtractTemplate ==
    /\ wpc = "extract_template"
    /\ calls' = Append(calls, "extract_template")
    /\ IF env.template_ok
       THEN wpc' = "extract_recap" /\ UNCHANGED success
       ELSE Fail
    /\ UNCHANGED env
    /\ UNCHANGED <<detVars, fldVars, clsVars, mapVars>>

\* recap_data = extractor.extract_recap(...)
ExtractRecap ==
    /\ wpc = "extract_recap"
    /\ calls' = Append(calls, "extract_recap")
    /\ IF env.recap_ok
       THEN wpc' = "map_fields" /\ UNCHANGED success
       ELSE Fail
    /\ UNCHANGED env
    /\ UNCHANGED <<detVars, fldVars, clsVars, mapVars>>

\* fields = mapper.extract_part_i_fields(recap_data)
MapFields ==
    /\ wpc = "map_fields"
    /\ calls' = Append(calls, "extract_part_i_fields")
    /\ wpc' = "detect"
    /\ UNCHANGED <<env, success>>
    /\ UNCHANGED <<detVars, fldVars, clsVars, mapVars>>

\* amendments = parser.detect_amendments(...); logger.info(... len(...))
DetectAmendments ==
    /\ wpc = "detect"
    /\ calls' = Append(calls, "detect_amendments")
    /\ IF LogLineRaises(env.amend)
       THEN Fail
       ELSE wpc' = "mkdir" /\ UNCHANGED success
    /\ UNCHANGED env
    /\ UNCHANGED <<detVars, fldVars, clsVars, mapVars>>

\* output_file.parent.mkdir(parents=True, exist_ok=True)
MakeOutputDir ==
    /\ wpc = "mkdir"
    /\ IF env.mkdir_ok
       THEN wpc' = "create_pdf" /\ UNCHANGED success
       ELSE Fail
    /\ UNCHANGED <<env, calls>>
    /\ UNCHANGED <<detVars, fldVars, clsVars, mapVars>>

\* success = generator.create_pdf(...); return True if success else False
CreatePdf ==
    /\ wpc = "create_pdf"
    /\ calls' = Append(calls, "create_pdf")
    /\ success' = env.pdf_ok
    /\ wpc' = "done"
    /\ UNCHANGED env
    /\ UNCHANGED <<detVars, fldVars, clsVars, mapVars>>

NextFlow == \/ CheckTemplate
            \/ CheckRecap
            \/ ExtractTemplate
            \/ ExtractRecap
            \/ MapFields
            \/ DetectAmendments
            \/ MakeOutputDir
            \/ CreatePdf

SpecFlow == InitFlow /\ [][NextFlow]_vars

(***************************************************************************)
(* Claims about the workflow                                               *)
(***************************************************************************)
Called(name) == name \in Range(calls)

ExtractionFailed ==
    \/ Called("extract_template") /\ ~env.template_ok
    \/ Called("extract_recap") /\ ~env.recap_ok

\* C17: a failed template or recap extraction ends the run with failure
\* with no field mapping, amendment detection or PDF generation; once
\* detect_amendments has returned, whether create_pdf is attempted does not
\* depend on its result, the empty one included; success is reported only
\* after create_pdf was invoked and returned success.
C17_Workflow ==
    /\ ExtractionFailed =>
          /\ wpc = "done"
          /\ ~success
          /\ ~Called("extract_part_i_fields")
          /\ ~Called("detect_amendments")
          /\ ~Called("create_pdf")
    /\ (wpc = "done" /\ Called("detect_amendments")) =>
          (Called("create_pdf") <=> env.mkdir_ok)
    /\ success => (wpc = "done" /\ Called("create_pdf") /\ env.pdf_ok)

C17_Witness ==
    /\ wpc = "done"
    /\ env.amend = "skeleton"
    /\ calls = <<"extract_template", "extract_recap", "extract_part_i_fields",
                 "detect_amendments", "create_pdf">>
    /\ success

====
